---- MODULE Spec2Model ----
(***************************************************************************)
(* Model of scripts/validate.js, the content validation script of the      *)
(* portfolio website: the frontmatter parser, the blog and project rule    *)
(* sets, the two directory sections and main's exit status.                *)
(*                                                                         *)
(* A JavaScript string is modelled as a sequence of one-character strings. *)
(* A frontmatter value is a record [isArray, text, items]: a scalar has    *)
(* its text and no items, an array has its items and no text.              *)
(***************************************************************************)
EXTENDS Integers, Sequences, FiniteSets, TLC

----------------------------------------------------------------------------
(* Characters *)

DQ == "\""
SQ == "'"
NL == "\n"
SP == " "

\* The two quote characters of the class ["'] (lines 48 and 51).
Quotes == {DQ, SQ}

\* The characters String.prototype.trim removes that the model's texts use.
Whitespace == {SP, NL, "\t", "\r"}

\* The opening delimiter ---\n and the closing delimiter \n---\n of the
\* regular expression of line 36.
Delim == <<"-", "-", "-", NL>>
Closing == <<NL, "-", "-", "-", NL>>

----------------------------------------------------------------------------
(* String functions of the JavaScript library, as the script uses them *)

MinOf(S) == CHOOSE x \in S : \A y \in S : x <= y
MaxOf(S) == 0 - MinOf({0 - x : x \in S})

\* s.trim()
trim(s) ==
    LET keep == {i \in 1..Len(s) : s[i] \notin Whitespace}
    IN IF keep = {} THEN <<>> ELSE SubSeq(s, MinOf(keep), MaxOf(keep))

\* s.indexOf(c), one-based; 0 stands for JavaScript's -1 (not found).
indexOf(s, c) ==
    LET at == {i \in 1..Len(s) : s[i] = c}
    IN IF at = {} THEN 0 ELSE MinOf(at)

\* s.split(sep) for a one-character separator: the empty string splits into
\* one empty piece.
RECURSIVE split(_, _)
split(s, sep) ==
    LET i == indexOf(s, sep)
    IN IF i = 0 THEN <<s>>
       ELSE <<SubSeq(s, 1, i - 1)>> \o split(SubSeq(s, i + 1, Len(s)), sep)

\* pieces.join(sep)
RECURSIVE join(_, _)
join(pieces, sep) ==
    IF pieces = <<>> THEN <<>>
    ELSE IF Len(pieces) = 1 THEN pieces[1]
    ELSE pieces[1] \o sep \o join(Tail(pieces), sep)

\* s.startsWith(c) and s.endsWith(c) for a one-character c
startsWith(s, c) == Len(s) > 0 /\ s[1] = c
endsWith(s, c) == Len(s) > 0 /\ s[Len(s)] = c

----------------------------------------------------------------------------
(* parseFrontmatter, lines 34-59 *)

\* value.replace(/^["']|["']$/g, ''), lines 48 and 51: a quote at the start is
\* removed, and a quote at the end of what is left is removed; the two
\* alternatives of the pattern match independently of each other.
StripQuotes(v) ==
    LET a == IF Len(v) > 0 /\ v[1] \in Quotes THEN Tail(v) ELSE v
    IN IF Len(a) > 0 /\ a[Len(a)] \in Quotes THEN SubSeq(a, 1, Len(a) - 1) ELSE a

Scalar(t) == [isArray |-> FALSE, text |-> t, items |-> <<>>]
Array(xs) == [isArray |-> TRUE, text |-> <<>>, items |-> xs]

\* ''.split(',') mistaken for the empty array.
SplitItemsDroppingEmpty(inner) ==
    IF inner = <<>> THEN <<>> ELSE split(inner, ",")

\* value.slice(1, -1).split(','), line 51
SplitItems(inner) == split(inner, ",")

\* Lines 47-52 with the bracket test of line 50 made before the quotes are
\* stripped.
ParseValueBracketsFirst(raw) ==
    LET value == trim(raw)
    IN IF startsWith(value, "[") /\ endsWith(value, "]")
       THEN LET pieces == SplitItems(SubSeq(value, 2, Len(value) - 1))
            IN Array([i \in 1..Len(pieces) |-> StripQuotes(trim(pieces[i]))])
       ELSE Scalar(StripQuotes(value))

\* Lines 47-52: the value of a line from the text after its first colon.
ParseValue(raw) ==
    LET value == StripQuotes(trim(raw))
    IN IF startsWith(value, "[") /\ endsWith(value, "]")
       THEN LET pieces == SplitItems(SubSeq(value, 2, Len(value) - 1))
            IN Array([i \in 1..Len(pieces) |-> StripQuotes(trim(pieces[i]))])
       ELSE Scalar(value)

\* Lines 43-56, one line of the header: a line without a colon is skipped,
\* a later line overwrites an earlier one with the same key.
ParseLine(frontmatter, line) ==
    LET colonIndex == indexOf(line, ":")
    IN IF colonIndex > 0
       THEN LET key == trim(SubSeq(line, 1, colonIndex - 1))
                value == ParseValue(SubSeq(line, colonIndex + 1, Len(line)))
            IN (key :> value) @@ frontmatter
       ELSE frontmatter

RECURSIVE ParseLines(_, _)
ParseLines(frontmatter, lines) ==
    IF lines = <<>> THEN frontmatter
    ELSE ParseLines(ParseLine(frontmatter, Head(lines)), Tail(lines))

\* The lengths the header group ([\s\S]+?) can take for content to match
\* /^---\n([\s\S]+?)\n---\n([\s\S]*)$/: at least one character, then the
\* closing delimiter.
HeaderLengths(content) ==
    IF Len(content) >= 4 /\ SubSeq(content, 1, 4) = Delim
    THEN {n \in 1..(Len(content) - 9) : SubSeq(content, 5 + n, 9 + n) = Closing}
    ELSE {}

\* parseFrontmatter on the text of a file. isNull stands for the result's
\* frontmatter being null; frontmatter is then the empty mapping and unused.
parseFrontmatter(content) ==
    LET lens == HeaderLengths(content)
    IN IF lens = {}
       THEN [isNull |-> TRUE, frontmatter |-> <<>>, content |-> content]
       ELSE LET n == MinOf(lens)
            IN [isNull |-> FALSE,
                frontmatter |-> ParseLines(<<>>, split(SubSeq(content, 5, 4 + n), NL)),
                content |-> SubSeq(content, 10 + n, Len(content))]

----------------------------------------------------------------------------
(* Field names and literal values of the documents *)

kTitle == <<"t", "i", "t", "l", "e">>
kDate == <<"d", "a", "t", "e">>
kExcerpt == <<"e", "x", "c", "e", "r", "p", "t">>
kImage == <<"i", "m", "a", "g", "e">>
kTags == <<"t", "a", "g", "s">>
kDescription == <<"d", "e", "s", "c", "r", "i", "p", "t", "i", "o", "n">>
kTechnologies == <<"t", "e", "c", "h", "n", "o", "l", "o", "g", "i", "e", "s">>
kDemoUrl == <<"d", "e", "m", "o", "_", "u", "r", "l">>
kGithubUrl == <<"g", "i", "t", "h", "u", "b", "_", "u", "r", "l">>

\* Date.parse (line 84) gives a number for GoodDate and NaN for BadDate.
GoodDate == <<"2", "0", "2", "4">>
BadDate == <<"s", "o", "o", "n">>

\* new URL (line 165) accepts GoodUrl and throws on BadUrl.
GoodUrl == <<"h", ":", "/", "/", "a">>
BadUrl == <<"n", "o", "-", "u", "r", "l">>

\* fs.existsSync (lines 91 and 134) finds HereImage and not GoneImage.
HereImage == <<"/", "a", ".", "p", "n", "g">>
GoneImage == <<"/", "m", ".", "p", "n", "g">>

----------------------------------------------------------------------------
(* The library calls of the rules *)

\* JavaScript truthiness of frontmatter[key]: a key that is not set reads as
\* undefined, the empty string is falsy, every array is truthy.
Has(frontmatter, key) == key \in DOMAIN frontmatter

Get(frontmatter, key) ==
    IF Has(frontmatter, key) THEN frontmatter[key] ELSE Scalar(<<>>)

Truthy(frontmatter, key) ==
    LET v == Get(frontmatter, key) IN v.isArray \/ v.text # <<>>

\* String(value), as template literals, Date.parse and new URL apply it: an
\* array is its items joined by commas.
StringOf(v) == IF v.isArray THEN join(v.items, <<",">>) ELSE v.text

\* !isNaN(Date.parse(value)), line 84
DateParses(v) == StringOf(v) = GoodDate

\* isValidUrl, lines 163-170
isValidUrl(v) == StringOf(v) = GoodUrl

\* path.join(__dirname, '..', image) throws a TypeError when image is not a
\* string (lines 90 and 133); nothing catches it.
JoinThrows(v) == v.isArray

\* fs.existsSync(path.join(__dirname, '..', image)) for a string image.
ImageExists(v) == v.text = HereImage

----------------------------------------------------------------------------
(* Findings and the two accumulators, lines 17-18 *)

\* A message: the file (directory and position in the listing; position 0 for
\* a message about the directory itself), the rule, and the literal value or
\* the length the message quotes.
Finding(dir, index, rule, arg, length) ==
    [dir |-> dir, index |-> index, rule |-> rule, arg |-> arg, length |-> length]

File(dir, index) == [dir |-> dir, index |-> index]

Msg(file, rule, arg, length) == Finding(file.dir, file.index, rule, arg, length)

\* errors.push and warnings.push on the state of a call in progress
pushError(st, m) == [st EXCEPT !.errors = Append(@, m)]
pushWarning(st, m) == [st EXCEPT !.warnings = Append(@, m)]
throw(st) == [st EXCEPT !.threw = TRUE]

\* content.trim().length < 100 (line 97) and < 200 (line 155)
BlogMinLength == 100
ProjectMinLength == 200

----------------------------------------------------------------------------
(* validateBlogPost, lines 64-105 *)

\* Line 84 without the guard on frontmatter.date.
DateInvalidUnguarded(fm) == ~DateParses(Get(fm, kDate))

\* Line 84
DateInvalid(fm) == Truthy(fm, kDate) /\ ~DateParses(Get(fm, kDate))

\* Lines 89-94: the image rule of a blog post.
BlogImageRule(fm, file, st) ==
    IF Truthy(fm, kImage)
    THEN IF JoinThrows(Get(fm, kImage)) THEN throw(st)
         ELSE IF ~ImageExists(Get(fm, kImage))
              THEN pushWarning(st, Msg(file, "ImageNotFound", StringOf(Get(fm, kImage)), 0))
              ELSE st
    ELSE st

\* Lines 72-104: the rules on a parsed blog post, in the order of the code.
BlogRules(fm, body, file, st) ==
    LET s1 == IF ~Truthy(fm, kTitle)
              THEN pushError(st, Msg(file, "MissingField", kTitle, 0)) ELSE st
        s2 == IF ~Truthy(fm, kDate)
              THEN pushError(s1, Msg(file, "MissingField", kDate, 0)) ELSE s1
        s3 == IF ~Truthy(fm, kExcerpt)
              THEN pushWarning(s2, Msg(file, "MissingExcerpt", <<>>, 0)) ELSE s2
        s4 == IF DateInvalid(fm)
              THEN pushError(s3, Msg(file, "InvalidDate", StringOf(Get(fm, kDate)), 0))
              ELSE s3
        s5 == BlogImageRule(fm, file, s4)
        s6 == IF Len(trim(body)) < BlogMinLength
              THEN pushWarning(s5, Msg(file, "ShortContent", <<>>, Len(trim(body))))
              ELSE s5
        s7 == IF /\ Truthy(fm, kTags)
                 /\ Get(fm, kTags).isArray
                 /\ Len(Get(fm, kTags).items) = 0
              THEN pushWarning(s6, Msg(file, "EmptyTags", <<>>, 0)) ELSE s6
    IN IF s5.threw THEN s5 ELSE s7

\* validateBlogPost with the return of line 69 left out.
validateBlogPostNoReturn(parsed, file, st) ==
    IF parsed.isNull
    THEN BlogRules(parsed.frontmatter, parsed.content, file,
                   pushError(st, Msg(file, "MissingFrontmatter", <<>>, 0)))
    ELSE BlogRules(parsed.frontmatter, parsed.content, file, st)

\* validateBlogPost on the result of parseFrontmatter.
validateBlogPost(parsed, file, st) ==
    IF parsed.isNull
    THEN pushError(st, Msg(file, "MissingFrontmatter", <<>>, 0))
    ELSE BlogRules(parsed.frontmatter, parsed.content, file, st)

----------------------------------------------------------------------------
(* validateProject, lines 110-158 *)

\* Lines 132-139 with the else attached to the inner if: a missing file is
\* reported as no image, and an absent image is not reported.
ProjectImageRuleConflated(fm, file, st) ==
    IF Truthy(fm, kImage)
    THEN IF JoinThrows(Get(fm, kImage)) THEN throw(st)
         ELSE IF ~ImageExists(Get(fm, kImage))
              THEN pushWarning(st, Msg(file, "NoImage", <<>>, 0))
              ELSE st
    ELSE st

\* Lines 132-139: the image rule of a project.
ProjectImageRule(fm, file, st) ==
    IF Truthy(fm, kImage)
    THEN IF JoinThrows(Get(fm, kImage)) THEN throw(st)
         ELSE IF ~ImageExists(Get(fm, kImage))
              THEN pushWarning(st, Msg(file, "ImageNotFound", StringOf(Get(fm, kImage)), 0))
              ELSE st
    ELSE pushWarning(st, Msg(file, "NoImage", <<>>, 0))

\* Lines 118-157: the rules on a parsed project, in the order of the code.
ProjectRules(fm, body, file, st) ==
    LET s1 == IF ~Truthy(fm, kTitle)
              THEN pushError(st, Msg(file, "MissingField", kTitle, 0)) ELSE st
        s2 == IF ~Truthy(fm, kDescription)
              THEN pushError(s1, Msg(file, "MissingField", kDescription, 0)) ELSE s1
        s3 == IF \/ ~Truthy(fm, kTechnologies)
                 \/ ~Get(fm, kTechnologies).isArray
                 \/ Len(Get(fm, kTechnologies).items) = 0
              THEN pushWarning(s2, Msg(file, "NoTechnologies", <<>>, 0)) ELSE s2
        s4 == ProjectImageRule(fm, file, s3)
        s5 == IF ~Truthy(fm, kDemoUrl) /\ ~Truthy(fm, kGithubUrl)
              THEN pushWarning(s4, Msg(file, "NoUrl", <<>>, 0)) ELSE s4
        s6 == IF Truthy(fm, kDemoUrl) /\ ~isValidUrl(Get(fm, kDemoUrl))
              THEN pushError(s5, Msg(file, "InvalidDemoUrl", StringOf(Get(fm, kDemoUrl)), 0))
              ELSE s5
        s7 == IF Truthy(fm, kGithubUrl) /\ ~isValidUrl(Get(fm, kGithubUrl))
              THEN pushError(s6, Msg(file, "InvalidGithubUrl", StringOf(Get(fm, kGithubUrl)), 0))
              ELSE s6
        s8 == IF Len(trim(body)) < ProjectMinLength
              THEN pushWarning(s7, Msg(file, "ShortContent", <<>>, Len(trim(body))))
              ELSE s7
    IN IF s4.threw THEN s4 ELSE s8

\* validateProject on the result of parseFrontmatter.
validateProject(parsed, file, st) ==
    IF parsed.isNull
    THEN pushError(st, Msg(file, "MissingFrontmatter", <<>>, 0))
    ELSE ProjectRules(parsed.frontmatter, parsed.content, file, st)

----------------------------------------------------------------------------
(* The documents of a run *)

\* Bound: the number of .md files of the two directories together.
MaxFiles == 2

Rep(c, n) == [i \in 1..n |-> c]

Line(key, valueText) == key \o <<":", SP>> \o valueText

\* Bodies whose trimmed lengths lie on both sides of the two thresholds; the
\* white space around them is what trim removes.
Body(tag) ==
    CASE tag = "b99" -> <<NL>> \o Rep("x", BlogMinLength - 1) \o <<SP, NL>>
      [] tag = "b100" -> <<NL>> \o Rep("x", BlogMinLength) \o <<NL>>
      [] tag = "b199" -> <<NL>> \o Rep("x", ProjectMinLength - 1) \o <<SP, NL>>
      [] tag = "b200" -> <<NL>> \o Rep("x", ProjectMinLength) \o <<NL>>

ImageLines(d) ==
    CASE d.image = "absent" -> <<>>
      [] d.image = "exists" -> <<Line(kImage, HereImage)>>
      [] d.image = "missing" -> <<Line(kImage, GoneImage)>>
      [] d.image = "empty" -> <<Line(kImage, <<>>)>>
      [] d.image = "array" -> <<Line(kImage, <<"[">> \o GoneImage \o <<"]">>)>>

ListLines(key, choice) ==
    CASE choice = "absent" -> <<>>
      [] choice = "empty" -> <<Line(key, <<"[", "]">>)>>
      [] choice = "two" -> <<Line(key, <<"[", "a", ",", SP, DQ, "b", DQ, "]">>)>>
      [] choice = "scalar" -> <<Line(key, <<"a">>)>>

DateLines(d) ==
    CASE d.date = "absent" -> <<>>
      [] d.date = "valid" -> <<Line(kDate, GoodDate)>>
      [] d.date = "invalid" -> <<Line(kDate, BadDate)>>

UrlLines(key, choice) ==
    CASE choice = "absent" -> <<>>
      [] choice = "valid" -> <<Line(key, GoodUrl)>>
      [] choice = "invalid" -> <<Line(key, BadUrl)>>

TextLines(key, choice, valueText) ==
    IF choice = "absent" THEN <<>> ELSE <<Line(key, valueText)>>

\* The text of a file from its header lines and its body: a header between
\* the two delimiter lines ("header"), no delimiter line at all ("plain"), the
\* two delimiter lines with nothing between them ("adjacent"), and an opening
\* delimiter line that is never closed ("unclosed").
Document(shape, lines, body) ==
    CASE shape = "header" -> Delim \o join(lines, <<NL>>) \o Closing \o body
      [] shape = "plain" -> body
      [] shape = "adjacent" -> Delim \o <<"-", "-", "-", NL>> \o body
      [] shape = "unclosed" -> Delim \o join(lines, <<NL>>) \o <<NL>> \o body

BlogText(d) ==
    Document(d.shape,
             TextLines(kTitle, d.title, <<DQ, "H", "i", DQ>>) \o DateLines(d)
                 \o TextLines(kExcerpt, d.excerpt, <<"E">>) \o ImageLines(d)
                 \o ListLines(kTags, d.tags),
             Body(d.body))

ProjectText(d) ==
    Document(d.shape,
             TextLines(kTitle, d.title, <<"P">>)
                 \o TextLines(kDescription, d.description, <<SQ, "D", SQ>>)
                 \o ListLines(kTechnologies, d.technologies) \o ImageLines(d)
                 \o UrlLines(kDemoUrl, d.demo_url) \o UrlLines(kGithubUrl, d.github_url),
             Body(d.body))

\* A blog post and a project no rule objects to.
GoodPost ==
    [shape |-> "header", title |-> "set", date |-> "valid", excerpt |-> "set",
     image |-> "absent", tags |-> "absent", body |-> "b100"]

GoodProject ==
    [shape |-> "header", title |-> "set", description |-> "set",
     technologies |-> "two", image |-> "exists", demo_url |-> "valid",
     github_url |-> "absent", body |-> "b200"]

\* The blog posts a directory may hold: GoodPost with its title, date and
\* body varied together, its image and body varied together, a post every
\* rule objects to, and the other fields and the shape varied on their own.
BlogDocs ==
    {[GoodPost EXCEPT !.title = t, !.date = dt, !.body = b] :
        t \in {"absent", "set"}, dt \in {"absent", "valid", "invalid"},
        b \in {"b99", "b100"}}
    \cup
    {[GoodPost EXCEPT !.image = i, !.body = b] :
        i \in {"exists", "missing", "empty", "array"}, b \in {"b99", "b100"}}
    \cup
    {[GoodPost EXCEPT !.date = "absent", !.image = "array"],
     [GoodPost EXCEPT !.title = "absent", !.date = "invalid", !.excerpt = "absent",
                      !.image = "missing", !.body = "b99"],
     [GoodPost EXCEPT !.excerpt = "absent"],
     [GoodPost EXCEPT !.title = "absent", !.date = "absent", !.excerpt = "absent"]}
    \cup
    {[GoodPost EXCEPT !.tags = t] : t \in {"empty", "two", "scalar"}}
    \cup
    {[GoodPost EXCEPT !.shape = s, !.body = "b99"] : s \in {"plain", "adjacent"}}

\* The projects a directory may hold: GoodProject with each field varied on
\* its own, and the shape.
ProjectDocs ==
    {[GoodProject EXCEPT !.technologies = t] : t \in {"absent", "empty", "two", "scalar"}}
    \cup
    {[GoodProject EXCEPT !.image = i] :
        i \in {"absent", "exists", "missing", "empty", "array"}}
    \cup
    {[GoodProject EXCEPT !.technologies = "empty", !.image = "missing", !.body = "b199"],
     [GoodProject EXCEPT !.image = "array", !.body = "b199"],
     [GoodProject EXCEPT !.title = "absent"],
     [GoodProject EXCEPT !.description = "absent"],
     [GoodProject EXCEPT !.title = "absent", !.description = "absent", !.image = "absent"],
     [GoodProject EXCEPT !.body = "b199"]}
    \cup
    {[GoodProject EXCEPT !.demo_url = u, !.github_url = g] :
        u \in {"absent", "invalid"}, g \in {"absent", "valid", "invalid"}}
    \cup
    {[GoodProject EXCEPT !.shape = s, !.body = "b199"] : s \in {"plain", "adjacent"}}

\* parseFrontmatter on each document (line 65 and line 111).
BlogParsed == [d \in BlogDocs |-> parseFrontmatter(BlogText(d))] @@ <<>>
ProjectParsed == [d \in ProjectDocs |-> parseFrontmatter(ProjectText(d))] @@ <<>>

----------------------------------------------------------------------------
(* The texts parseFrontmatter is applied to on its own *)

\* Bound: the number of quote characters in front of and behind a raw value.
MaxQuotes == 2

kK == <<"k">>
kJ == <<"j">>

QuoteRuns == UNION {[1..n -> Quotes] : n \in 0..MaxQuotes}

\* What stands between the quotes of a raw value: nothing, a word, a word
\* with a quote inside, a padded word, a value with a colon, bracketed lists
\* and a bracket that is not closed.
Cores ==
    { <<>>,
      <<"a">>,
      <<"a", SQ, "b">>,
      <<SP, "a", SP>>,
      <<"a", ":", "b">>,
      <<"[", "]">>,
      <<"[", "a", "]">>,
      <<"[", "a", ",", SP, DQ, "b", DQ, "]">>,
      <<"[", DQ, DQ, "a", DQ, DQ, ",", SQ, SP, "b", SQ, "]">>,
      <<"[", "a">> }

RawValues == {pre \o core \o post : pre \in QuoteRuns, core \in Cores, post \in QuoteRuns}

\* The header lines around the line of the value.
HeaderLines(layout, value) ==
    CASE layout = "single" -> <<Line(kK, value)>>
      [] layout = "padded" -> <<<<SP>> \o kK \o <<SP, ":", SP, SP>> \o value \o <<SP>>>>
      [] layout = "overwrite" -> <<Line(kK, <<"o", "l", "d">>), Line(kK, value)>>
      [] layout = "skipped" -> <<<<"n", "o", SP, "c", "o", "l", "o", "n">>, Line(kK, value), <<>>>>
      [] layout = "two" -> <<Line(kK, value), kJ \o <<":", "[", "x", ",", "y", "]">>>>
      [] layout = "none" -> <<<<"n", "o", SP, "c", "o", "l", "o", "n">>>>

\* A body, and a body that holds a delimiter line of its own.
ParseBody(tag) ==
    CASE tag = "one" -> <<"b", NL>>
      [] tag = "rule" -> <<"b", NL, "-", "-", "-", NL, "c">>

ParseText(d) == Document(d.shape, HeaderLines(d.layout, d.value), ParseBody(d.body))

ParseDocs ==
    [shape : {"header"}, layout : {"single", "padded", "overwrite", "skipped", "two"},
     value : RawValues, body : {"one", "rule"}]
    \cup
    [shape : {"header"}, layout : {"none"}, value : {<<>>}, body : {"one", "rule"}]
    \cup
    [shape : {"plain", "adjacent", "unclosed"}, layout : {"single"},
     value : {<<"a">>}, body : {"one", "rule"}]

NoDoc == [shape |-> "plain", layout |-> "single", value |-> <<>>, body |-> "one"]
NoResult == [isNull |-> TRUE, frontmatter |-> <<>>, content |-> <<>>]

----------------------------------------------------------------------------
(* The run: main, validateBlogPosts, validateProjects *)

VARIABLES
    pc,           \* where main is
    errors,       \* the errors accumulator, line 17
    warnings,     \* the warnings accumulator, line 18
    exitCode,     \* the exit status of the process, -1 while it runs
    blogDir,      \* whether content/blog exists
    projectsDir,  \* whether content/projects exists
    count,        \* files.length of the listing being walked
    blogDocs,     \* the blog posts validated so far, in listing order
    projectDocs,  \* the projects validated so far, in listing order
    step,         \* where a call of parseFrontmatter on its own is
    doc,          \* the file that call is given
    fileContent,  \* the text read from the file, line 35
    result        \* what the call returns

runVars == <<pc, errors, warnings, exitCode, blogDir, projectsDir, count,
             blogDocs, projectDocs>>
parseVars == <<step, doc, fileContent, result>>
vars == <<runVars, parseVars>>

Running == -1

Init ==
    /\ pc = "blog"
    /\ errors = <<>>
    /\ warnings = <<>>
    /\ exitCode = Running
    /\ blogDir \in BOOLEAN
    /\ projectsDir \in BOOLEAN
    /\ count = 0
    /\ blogDocs = <<>>
    /\ projectDocs = <<>>
    /\ step = "idle"
    /\ doc = NoDoc
    /\ fileContent = <<>>
    /\ result = NoResult

\* checkDirectory with one existence test for the whole content tree.
checkDirectoryOfAll(exists) == blogDir /\ projectsDir

\* checkDirectory, lines 23-29: the result for a directory that exists or not
\* (the error is pushed by the action that calls it).
checkDirectory(exists) == exists

\* Lines 178 and 25: the blog directory is missing.
BlogDirectoryMissing ==
    /\ pc = "blog"
    /\ ~checkDirectory(blogDir)
    /\ errors' = Append(errors, Finding("blog", 0, "DirectoryNotFound", <<>>, 0))
    /\ pc' = "projects"
    /\ UNCHANGED <<warnings, exitCode, blogDir, projectsDir, count, blogDocs, projectDocs, parseVars>>

\* Lines 180-185: the listing holds no .md file.
BlogDirectoryEmpty ==
    /\ pc = "blog"
    /\ checkDirectory(blogDir)
    /\ warnings' = Append(warnings, Finding("blog", 0, "NoneFound", <<>>, 0))
    /\ pc' = "projects"
    /\ UNCHANGED <<errors, exitCode, blogDir, projectsDir, count, blogDocs, projectDocs, parseVars>>

\* Lines 180-187: the listing holds n files.
BlogListing(n) ==
    /\ pc = "blog"
    /\ checkDirectory(blogDir)
    /\ count' = n
    /\ pc' = "blogFiles"
    /\ UNCHANGED <<errors, warnings, exitCode, blogDir, projectsDir, blogDocs, projectDocs, parseVars>>

\* The process after an uncaught exception: every later statement is skipped
\* and node exits with status 1.
Outcome(st, nextPc) ==
    /\ errors' = st.errors
    /\ warnings' = st.warnings
    /\ pc' = IF st.threw THEN "aborted" ELSE nextPc
    /\ exitCode' = IF st.threw THEN 1 ELSE exitCode

\* Lines 187-190: one turn of the forEach, on a file whose text is d.
BlogFile(d) ==
    /\ pc = "blogFiles"
    /\ LET file == File("blog", Len(blogDocs) + 1)
           st == validateBlogPost(BlogParsed[d], file,
                                  [errors |-> errors, warnings |-> warnings, threw |-> FALSE])
       IN Outcome(st, IF Len(blogDocs) + 1 = count THEN "projects" ELSE "blogFiles")
    /\ blogDocs' = Append(blogDocs, d)
    /\ UNCHANGED <<blogDir, projectsDir, count, projectDocs, parseVars>>

\* Lines 201 and 25: the projects directory is missing.
ProjectsDirectoryMissing ==
    /\ pc = "projects"
    /\ ~checkDirectory(projectsDir)
    /\ errors' = Append(errors, Finding("projects", 0, "DirectoryNotFound", <<>>, 0))
    /\ pc' = "report"
    /\ UNCHANGED <<warnings, exitCode, blogDir, projectsDir, count, blogDocs, projectDocs, parseVars>>

\* Lines 203-208: the listing holds no .md file.
ProjectsDirectoryEmpty ==
    /\ pc = "projects"
    /\ checkDirectory(projectsDir)
    /\ warnings' = Append(warnings, Finding("projects", 0, "NoneFound", <<>>, 0))
    /\ pc' = "report"
    /\ UNCHANGED <<errors, exitCode, blogDir, projectsDir, count, blogDocs, projectDocs, parseVars>>

\* Lines 203-210: the listing holds n files.
ProjectsListing(n) ==
    /\ pc = "projects"
    /\ checkDirectory(projectsDir)
    /\ count' = n
    /\ pc' = "projectFiles"
    /\ UNCHANGED <<errors, warnings, exitCode, blogDir, projectsDir, blogDocs, projectDocs, parseVars>>

\* Lines 210-213: one turn of the forEach, on a file whose text is d.
ProjectFile(d) ==
    /\ pc = "projectFiles"
    /\ LET file == File("projects", Len(projectDocs) + 1)
           st == validateProject(ProjectParsed[d], file,
                                 [errors |-> errors, warnings |-> warnings, threw |-> FALSE])
       IN Outcome(st, IF Len(projectDocs) + 1 = count THEN "report" ELSE "projectFiles")
    /\ projectDocs' = Append(projectDocs, d)
    /\ UNCHANGED <<blogDir, projectsDir, count, blogDocs, parseVars>>

\* The exit status when the warnings count as well.
ExitStatusCountingWarnings == IF Len(errors) + Len(warnings) > 0 THEN 1 ELSE 0

\* Lines 248-250, and the status 0 of a script that runs to its end.
ExitStatus == IF Len(errors) > 0 THEN 1 ELSE 0

\* Lines 228-250: the report, which changes nothing, and the exit.
Report ==
    /\ pc = "report"
    /\ exitCode' = ExitStatus
    /\ pc' = "done"
    /\ UNCHANGED <<errors, warnings, blogDir, projectsDir, count, blogDocs, projectDocs, parseVars>>

Next ==
    \/ BlogDirectoryMissing
    \/ BlogDirectoryEmpty
    \/ \E n \in 1..MaxFiles : BlogListing(n)
    \/ \E d \in BlogDocs : BlogFile(d)
    \/ ProjectsDirectoryMissing
    \/ ProjectsDirectoryEmpty
    \/ \E n \in 1..(MaxFiles - Len(blogDocs)) : ProjectsListing(n)
    \/ \E d \in ProjectDocs : ProjectFile(d)
    \/ Report

Spec == Init /\ [][Next]_vars

----------------------------------------------------------------------------
(* parseFrontmatter on its own *)

InitParse ==
    /\ pc = "idle"
    /\ errors = <<>>
    /\ warnings = <<>>
    /\ exitCode = Running
    /\ blogDir = TRUE
    /\ projectsDir = TRUE
    /\ count = 0
    /\ blogDocs = <<>>
    /\ projectDocs = <<>>
    /\ step = "start"
    /\ doc \in ParseDocs
    /\ fileContent = <<>>
    /\ result = NoResult

\* Line 35: fs.readFileSync
ReadFile ==
    /\ step = "start"
    /\ fileContent' = ParseText(doc)
    /\ step' = "read"
    /\ UNCHANGED <<doc, result, runVars>>

\* Lines 36-58: the match and the walk over the header's lines
Parse ==
    /\ step = "read"
    /\ result' = parseFrontmatter(fileContent)
    /\ step' = "parsed"
    /\ UNCHANGED <<doc, fileContent, runVars>>

NextParse == ReadFile \/ Parse

SpecParse == InitParse /\ [][NextParse]_vars

----------------------------------------------------------------------------
(* Properties *)

\* The messages of one file in an accumulator, in the accumulator's order.
OfFile(acc, file) ==
    SelectSeq(acc, LAMBDA m : m.dir = file.dir /\ m.index = file.index)

\* The messages of one section (a directory's own message and its files').
OfSection(acc, dir) == SelectSeq(acc, LAMBDA m : m.dir = dir)

Rules(msgs) == [i \in 1..Len(msgs) |-> msgs[i].rule]

BlogFiles == {i \in 1..Len(blogDocs) : ~BlogParsed[blogDocs[i]].isNull}
ProjectFiles == {i \in 1..Len(projectDocs) : ~ProjectParsed[projectDocs[i]].isNull}

\* C1: in every run of main that completes, the exit status is 1 if and only
\* if the errors accumulator is non-empty and 0 otherwise, whatever the number
\* of warnings.
C1_ExitStatusIffErrors ==
    pc = "done" =>
        /\ (errors # <<>> => exitCode = 1)
        /\ (errors = <<>> => exitCode = 0)

\* A completed run with warnings only, which exits with status 0.
C1_Witness ==
    pc = "done" /\ errors = <<>> /\ Len(warnings) >= 2 /\ exitCode = 0

\* C2: a blog post or a project for which the parser returns null fields
\* contributes exactly one error, "Missing or invalid frontmatter", and no
\* warning.
C2_NullFieldsOneError ==
    /\ \A i \in 1..Len(blogDocs) :
          BlogParsed[blogDocs[i]].isNull =>
              /\ Rules(OfFile(errors, File("blog", i))) = <<"MissingFrontmatter">>
              /\ OfFile(warnings, File("blog", i)) = <<>>
    /\ \A i \in 1..Len(projectDocs) :
          ProjectParsed[projectDocs[i]].isNull =>
              /\ Rules(OfFile(errors, File("projects", i))) = <<"MissingFrontmatter">>
              /\ OfFile(warnings, File("projects", i)) = <<>>

\* A run that validated a blog post and a project without frontmatter, both
\* with bodies short enough for the short-body warning.
C2_Witness ==
    /\ \E i \in 1..Len(blogDocs) :
          /\ BlogParsed[blogDocs[i]].isNull
          /\ Len(trim(BlogParsed[blogDocs[i]].content)) < BlogMinLength
    /\ \E i \in 1..Len(projectDocs) :
          /\ ProjectParsed[projectDocs[i]].isNull
          /\ Len(trim(ProjectParsed[projectDocs[i]].content)) < ProjectMinLength

\* The blog posts with a non-empty title and no date field.
TitledUndated ==
    {i \in BlogFiles :
        LET fm == BlogParsed[blogDocs[i]].frontmatter
        IN Truthy(fm, kTitle) /\ ~Has(fm, kDate)}

OnlyErrorsOf(file) == errors # <<>> /\ OfFile(errors, file) = errors

\* C3: a blog post with a non-empty title and no date field records exactly
\* one error, which names the field date, and a run in which it is the only
\* source of errors exits with status 1.
C3_MissingDateOneError ==
    \A i \in TitledUndated :
        /\ OfFile(errors, File("blog", i)) = <<Msg(File("blog", i), "MissingField", kDate, 0)>>
        /\ (pc \in {"done", "aborted"} /\ OnlyErrorsOf(File("blog", i)) => exitCode = 1)

\* A completed run whose only errors are those of such a post.
C3_Witness ==
    /\ pc = "done"
    /\ \E i \in TitledUndated : OnlyErrorsOf(File("blog", i))
    /\ exitCode = 1

\* What validateBlogPosts and validateProjects record when each runs with
\* empty accumulators on its directory and the files it was given.
RECURSIVE BlogSection(_, _)
BlogSection(st, i) ==
    IF i > Len(blogDocs) \/ st.threw THEN st
    ELSE BlogSection(validateBlogPost(BlogParsed[blogDocs[i]], File("blog", i), st), i + 1)

RECURSIVE ProjectsSection(_, _)
ProjectsSection(st, i) ==
    IF i > Len(projectDocs) \/ st.threw THEN st
    ELSE ProjectsSection(validateProject(ProjectParsed[projectDocs[i]], File("projects", i), st),
                         i + 1)

Nothing == [errors |-> <<>>, warnings |-> <<>>, threw |-> FALSE]

BlogAlone ==
    IF ~blogDir THEN pushError(Nothing, Finding("blog", 0, "DirectoryNotFound", <<>>, 0))
    ELSE IF blogDocs = <<>> THEN pushWarning(Nothing, Finding("blog", 0, "NoneFound", <<>>, 0))
    ELSE BlogSection(Nothing, 1)

ProjectsAlone ==
    IF ~projectsDir
    THEN pushError(Nothing, Finding("projects", 0, "DirectoryNotFound", <<>>, 0))
    ELSE IF projectDocs = <<>>
    THEN pushWarning(Nothing, Finding("projects", 0, "NoneFound", <<>>, 0))
    ELSE ProjectsSection(Nothing, 1)

ImageWarnings(file) ==
    SelectSeq(OfFile(warnings, file), LAMBDA m : m.rule \in {"NoImage", "ImageNotFound"})

\* fs.existsSync on the path of an image given as text: the empty text
\* resolves to the root the paths are joined to, which exists.
ResolvedPathExists(v) == v.text = <<>> \/ ImageExists(v)

\* C5 as stated: a project without an image field gets the warning "No
\* featured image specified", one with an image field whose path does not
\* exist gets "Image not found" with the literal path, one with an image field
\* whose path exists gets neither; a blog post without an image field gets no
\* image warning.
C5_AsStated ==
    /\ \A i \in ProjectFiles :
          LET fm == ProjectParsed[projectDocs[i]].frontmatter
              file == File("projects", i)
              image == Get(fm, kImage)
          IN /\ ~Has(fm, kImage) => Rules(ImageWarnings(file)) = <<"NoImage">>
             /\ Has(fm, kImage) /\ ~image.isArray /\ ~ResolvedPathExists(image) =>
                   ImageWarnings(file) = <<Msg(file, "ImageNotFound", image.text, 0)>>
             /\ Has(fm, kImage) /\ ~image.isArray /\ ResolvedPathExists(image) =>
                   ImageWarnings(file) = <<>>
    /\ \A i \in BlogFiles :
          ~Has(BlogParsed[blogDocs[i]].frontmatter, kImage) =>
              ImageWarnings(File("blog", i)) = <<>>

\* C5 as amended: a project records at most one image warning: "No featured
\* image specified" when the image field is absent or empty, "Image not found"
\* with the literal value when the image is a non-empty text whose path does
\* not exist, none when that path exists, and none when the image is an array
\* (path.join throws). A blog post whose image field is absent or empty gets
\* no image warning.
C5_ImageRulesDistinct ==
    /\ \A i \in ProjectFiles :
          LET fm == ProjectParsed[projectDocs[i]].frontmatter
              file == File("projects", i)
              image == Get(fm, kImage)
          IN /\ Len(ImageWarnings(file)) <= 1
             /\ ~Truthy(fm, kImage) => Rules(ImageWarnings(file)) = <<"NoImage">>
             /\ Truthy(fm, kImage) /\ ~image.isArray /\ ~ImageExists(image) =>
                   ImageWarnings(file) = <<Msg(file, "ImageNotFound", image.text, 0)>>
             /\ Truthy(fm, kImage) /\ ~image.isArray /\ ImageExists(image) =>
                   ImageWarnings(file) = <<>>
             /\ image.isArray => ImageWarnings(file) = <<>>
    /\ \A i \in BlogFiles :
          ~Truthy(BlogParsed[blogDocs[i]].frontmatter, kImage) =>
              ImageWarnings(File("blog", i)) = <<>>

\* A run that validated two projects: one whose image field is empty and one
\* whose image file is missing.
C5_Witness ==
    /\ \E i \in ProjectFiles :
          LET fm == ProjectParsed[projectDocs[i]].frontmatter
          IN Has(fm, kImage) /\ ~Truthy(fm, kImage)
    /\ \E i \in ProjectFiles :
          LET fm == ProjectParsed[projectDocs[i]].frontmatter
          IN Truthy(fm, kImage) /\ ~Get(fm, kImage).isArray /\ ~ImageExists(Get(fm, kImage))

If(cond, msg) == IF cond THEN <<msg>> ELSE <<>>

\* The findings of a blog post when each rule is decided by its own
\* condition alone, in the order of the rules.
IndependentErrors(fm, file) ==
    If(~Truthy(fm, kTitle), Msg(file, "MissingField", kTitle, 0))
    \o If(~Truthy(fm, kDate), Msg(file, "MissingField", kDate, 0))
    \o If(Truthy(fm, kDate) /\ ~DateParses(Get(fm, kDate)),
          Msg(file, "InvalidDate", StringOf(Get(fm, kDate)), 0))

IndependentWarnings(fm, body, file) ==
    If(~Truthy(fm, kExcerpt), Msg(file, "MissingExcerpt", <<>>, 0))
    \o If(Truthy(fm, kImage) /\ StringOf(Get(fm, kImage)) # HereImage,
          Msg(file, "ImageNotFound", StringOf(Get(fm, kImage)), 0))
    \o If(Len(trim(body)) < BlogMinLength, Msg(file, "ShortContent", <<>>, Len(trim(body))))
    \o If(Get(fm, kTags).isArray /\ Get(fm, kTags).items = <<>>,
          Msg(file, "EmptyTags", <<>>, 0))

InFileOrder(msgs) ==
    \A a, b \in 1..Len(msgs) : a < b => msgs[a].index <= msgs[b].index

\* C9: for every blog post with non-null frontmatter each of the rules
\* title-missing, date-missing, excerpt-missing, date-invalid, image-not-found,
\* short-body and empty-tags records its finding if and only if its own
\* condition holds, whatever the other rules find; within each accumulator the
\* post's findings stand in rule order, after those of the posts before it.
C9_RulesIndependent ==
    /\ \A i \in BlogFiles :
          LET parsed == BlogParsed[blogDocs[i]]
              file == File("blog", i)
          IN /\ OfFile(errors, file) = IndependentErrors(parsed.frontmatter, file)
             /\ OfFile(warnings, file) =
                    IndependentWarnings(parsed.frontmatter, parsed.content, file)
    /\ InFileOrder(OfSection(errors, "blog"))
    /\ InFileOrder(OfSection(warnings, "blog"))

ArraysOf(fm) == {k \in DOMAIN fm : fm[k].isArray}

\* C10: every array parseFrontmatter produces has at least one element, an
\* empty bracket pair gives the one-element array of the empty string, the
\* warning "Tags array is empty" is never recorded, and a project with
\* technologies: [] does not get "No technologies listed".
C10_NoEmptyArray ==
    /\ \A m \in 1..Len(warnings) : warnings[m].rule # "EmptyTags"
    /\ \A i \in BlogFiles :
          LET fm == BlogParsed[blogDocs[i]].frontmatter
          IN /\ \A k \in ArraysOf(fm) : Len(fm[k].items) >= 1
             /\ blogDocs[i].tags = "empty" => fm[kTags] = Array(<<<<>>>>)
    /\ \A i \in ProjectFiles :
          LET fm == ProjectParsed[projectDocs[i]].frontmatter
          IN /\ \A k \in ArraysOf(fm) : Len(fm[k].items) >= 1
             /\ projectDocs[i].technologies = "empty" =>
                   /\ fm[kTechnologies] = Array(<<<<>>>>)
                   /\ "NoTechnologies" \notin
                          {m.rule : m \in {OfFile(warnings, File("projects", i))[j] :
                                              j \in 1..Len(OfFile(warnings, File("projects", i)))}}

\* A run that validated a blog post with tags: [] and a project with
\* technologies: [].
C10_Witness ==
    /\ \E i \in BlogFiles : blogDocs[i].tags = "empty"
    /\ \E i \in ProjectFiles : projectDocs[i].technologies = "empty"

----------------------------------------------------------------------------
(* Properties of parseFrontmatter on its own *)

RECURSIVE SeqOf(_)
SeqOf(S) == IF S = {} THEN <<>> ELSE LET x == CHOOSE x \in S : TRUE IN <<x>> \o SeqOf(S \ {x})

\* A field written back as a key: value line: a scalar as its text, an array
\* as a bracketed, comma-separated sequence.
WriteValue(v) == IF v.isArray THEN <<"[">> \o join(v.items, <<",", SP>>) \o <<"]">> ELSE v.text

\* The fields written back between the two delimiter lines, one line each.
Rewritten(fm) ==
    LET keys == SeqOf(DOMAIN fm)
    IN Delim \o join([i \in 1..Len(keys) |-> Line(keys[i], WriteValue(fm[keys[i]]))], <<NL>>)
             \o Closing

\* C6: for a document whose opening delimiter line is immediately followed by
\* the closing delimiter line, parseFrontmatter returns a non-null, empty
\* mapping and the text after the closing delimiter as the body.
C6_EmptyHeaderIsNotNull ==
    step = "parsed" /\ doc.shape = "adjacent" =>
        /\ ~result.isNull
        /\ result.frontmatter = <<>>
        /\ result.content = ParseBody(doc.body)

\* The quotes removed only as one matching pair: the same quote character at
\* both ends.
StripQuotesMatchingPair(v) ==
    IF Len(v) >= 2 /\ v[1] \in Quotes /\ v[Len(v)] = v[1]
    THEN SubSeq(v, 2, Len(v) - 1)
    ELSE v

\* C7: a scalar loses a leading and a trailing quote only as one matching
\* pair: the same quote character at both ends of the trimmed value; a value
\* with a quote at one end only, or with different quotes at its ends, is
\* returned unchanged.
C7_QuotesStrippedAsPair ==
    step = "parsed" /\ doc.shape = "header" /\ doc.layout = "single" =>
        (~result.frontmatter[kK].isArray =>
            result.frontmatter[kK].text = StripQuotesMatchingPair(trim(doc.value)))

\* C8 as stated: for every document with a valid header, the parsed fields
\* written back and parsed again give the same mapping.
C8_AsStated ==
    step = "parsed" /\ ~result.isNull =>
        LET again == parseFrontmatter(Rewritten(result.frontmatter))
        IN ~again.isNull /\ again.frontmatter = result.frontmatter

Edge(t) == Len(t) > 0 /\ (t[1] \in Quotes \cup Whitespace \/ t[Len(t)] \in Quotes \cup Whitespace)

\* A mapping with at least one field in which no scalar and no array element
\* begins or ends with a quote character or white space.
Plain(fm) ==
    /\ DOMAIN fm # {}
    /\ \A k \in DOMAIN fm :
          /\ ~Edge(fm[k].text)
          /\ \A i \in 1..Len(fm[k].items) : ~Edge(fm[k].items[i])

\* C8 as amended: for every document with a valid header whose parse gives at
\* least one field, and no scalar or array element that begins or ends with a
\* quote character or white space, the parsed fields written back and parsed
\* again give the same mapping.
C8_RoundTrip ==
    step = "parsed" /\ ~result.isNull /\ Plain(result.frontmatter) =>
        LET again == parseFrontmatter(Rewritten(result.frontmatter))
        IN ~again.isNull /\ again.frontmatter = result.frontmatter

\* A parsed header of two fields, an array and a quoted text from which the
\* quotes were stripped, that stand the round trip.
C8_Witness ==
    /\ step = "parsed"
    /\ ~result.isNull
    /\ Plain(result.frontmatter)
    /\ DOMAIN result.frontmatter = {kK, kJ}
    /\ result.frontmatter[kJ].isArray
    /\ ~result.frontmatter[kK].isArray
    /\ result.frontmatter[kK].text # <<>>
    /\ result.frontmatter[kK].text # trim(doc.value)
    /\ parseFrontmatter(Rewritten(result.frontmatter)).frontmatter = result.frontmatter

====
